---- MODULE Spec2Model ----
(***************************************************************************)
(* Redundancy analysis of iml_1_eda.py: the matrix builder in eda() (lines *)
(* 629-735), the pairwise scorer compute_redundancy() (lines 194-304) and  *)
(* its helpers prepare() (lines 57-154) and split_data() (lines 157-191).  *)
(*                                                                         *)
(* Numbers (fold scores, the mean, matrix cells) are exact rationals       *)
(* [num, den]; den = 0 is the floating point NaN.  Row positions are       *)
(* 1-based here and 0-based in the source; column ids keep the 0-based     *)
(* codes of pd.factorize.                                                  *)
(***************************************************************************)
EXTENDS Integers, Sequences, FiniteSets, TLC

(***************************************************************************)
(* Bounds of the model                                                     *)
(***************************************************************************)
\* N_CV_FOLDS ranges over 2..MaxFolds (sklearn rejects n_splits < 2)
MaxFolds == 2
\* N_PRED_OUTER_CV is the row count of the table or MaxPredOuter
MaxPredOuter == 5
\* N_PRED_INNER_CV is 2 or MaxPredInner
MaxPredInner == 3
\* a fold's score is a whole number in -MaxNegScore..1, or NaN
MaxNegScore == 1
\* configurations are limited to those whose build runs at most this many
\* rounds of inner repeats (pairs * folds * outer repeats * inner repeats)
MaxBuildFolds == 12
\* eda() called directly: the group vector has up to this many rows fewer or
\* more than the table
MaxRowDiff == 1
\* main(): MAX_SAMPLES ranges over NRows - 1 .. MaxSamples
MaxSamples == 4
\* main(): up to this many rows of the sheet have a missing target
MaxMissing == 1

(***************************************************************************)
(* Numbers                                                                 *)
(***************************************************************************)
\* den = 0 marks the two non-finite floats the scorer can meet
Rat(n) == [num |-> n, den |-> 1]
NaN == [num |-> 0, den |-> 0]
NegInf == [num |-> 0 - 1, den |-> 0]
IsNaN(v) == v = NaN

\* mth.ceil(a / b) for positive integers
CeilFloor(a, b) == a \div b
Ceil(a, b) == IF a % b = 0 THEN a \div b ELSE (a \div b) + 1

RECURSIVE SumNum(_)
SumNum(s) == IF s = <<>> THEN 0 ELSE Head(s).num + SumNum(Tail(s))

\* np.mean(scores): NaN as soon as one score is NaN (or the list is
\* empty), else -infinity as soon as one score is, else sum / count
MeanSum(s) ==
    IF s = <<>> \/ \E i \in 1..Len(s) : IsNaN(s[i]) THEN NaN
    ELSE IF \E i \in 1..Len(s) : s[i] = NegInf THEN NegInf
    ELSE [num |-> SumNum(s), den |-> 1]
Mean(s) ==
    IF s = <<>> \/ \E i \in 1..Len(s) : IsNaN(s[i]) THEN NaN
    ELSE IF \E i \in 1..Len(s) : s[i] = NegInf THEN NegInf
    ELSE [num |-> SumNum(s), den |-> Len(s)]

\* max(0, m) of Python: the first argument is kept unless m > 0 is true,
\* and any comparison with NaN is false
Max0Id(m) == m
Max0(m) == IF m.den > 0 /\ m.num > 0 THEN m ELSE Rat(0)

(***************************************************************************)
(* Tables                                                                  *)
(***************************************************************************)
Range(s) == {s[i] : i \in 1..Len(s)}

\* the columns of the (already pre-processed) table z, one value per row
ColData ==
    [c |-> <<3, 1, 2, 1>>,
     b |-> <<7, 4, 4, 7>>,
     m |-> <<2, 0, 1, 2>>,
     t |-> <<1, 0, 0, 1>>,
     u |-> <<0, 1, 1, 0>>]
NRows == Len(ColData.t)

\* pd.factorize(values)[0]: codes 0, 1, ... in order of first appearance
FirstIdx(s, v) == CHOOSE i \in 1..Len(s) : s[i] = v /\ \A j \in 1..(i-1) : s[j] # v
Factorize(s) ==
    [i \in 1..Len(s) |->
        Cardinality({FirstIdx(s, s[j]) : j \in 1..Len(s)}
                        \cap (1..FirstIdx(s, s[i]))) - 1]

\* itertools.permutations(ids, 2): the pairs of the elements at two
\* distinct positions, the first position varying slowest
PermIndex(n, idx) ==
    LET a  == ((idx - 1) \div (n - 1)) + 1
        b0 == ((idx - 1) % (n - 1)) + 1
    IN  <<a, IF b0 < a THEN b0 ELSE b0 + 1>>
Product2(ids) ==
    LET n == Len(ids)
    IN  [idx \in 1..(n * n) |->
            <<ids[((idx - 1) \div n) + 1], ids[((idx - 1) % n) + 1]>>]
Permutations2ColMajor(ids) ==
    LET n == Len(ids)
    IN  [idx \in 1..(n * (n - 1)) |->
            <<ids[PermIndex(n, idx)[2]], ids[PermIndex(n, idx)[1]]>>]
Permutations2(ids) ==
    LET n == Len(ids)
    IN  [idx \in 1..(n * (n - 1)) |->
            <<ids[PermIndex(n, idx)[1]], ids[PermIndex(n, idx)[2]]>>]

RECURSIVE SetToSortedSeq(_)
SetToSortedSeq(S) ==
    IF S = {} THEN <<>>
    ELSE LET lo == CHOOSE x \in S : \A y \in S : x <= y
         IN  <<lo>> \o SetToSortedSeq(S \ {lo})

\* df.iloc[idx].reset_index(drop=True): the rows at the given positions, in
\* position order, renumbered from the start
Iloc(df, idx) ==
    LET s == SetToSortedSeq(idx)
    IN  [i \in 1..Len(s) |-> df[s[i]]]

\* positions outside the table: df.iloc raises IndexError for them
OutOfBounds(df, idx) == \E i \in idx : i > Len(df)

\* split_data(df, i_trn, i_tst): the two slices are new tables; df is the
\* argument as the call leaves it, raised tells the IndexError of iloc
split_data_inplace(df, trn, tst) ==
    IF df # <<>>
    THEN IF OutOfBounds(df, trn \cup tst)
         THEN [raised |-> TRUE, trn |-> <<>>, tst |-> <<>>, df |-> df]
         ELSE [raised |-> FALSE, trn |-> Iloc(df, trn), tst |-> Iloc(df, tst),
               df |-> Iloc(df, trn)]
    ELSE [raised |-> FALSE, trn |-> <<>>, tst |-> <<>>, df |-> df]
split_data(df, trn, tst) ==
    IF df # <<>>
    THEN IF OutOfBounds(df, trn \cup tst)
         THEN [raised |-> TRUE, trn |-> <<>>, tst |-> <<>>, df |-> df]
         ELSE [raised |-> FALSE, trn |-> Iloc(df, trn), tst |-> Iloc(df, tst),
               df |-> df]
    ELSE [raised |-> FALSE, trn |-> <<>>, tst |-> <<>>, df |-> df]

(***************************************************************************)
(* Library contracts used by the scorer                                    *)
(***************************************************************************)
\* prepare(objective): the estimator class and the search space, or the
\* ValueError of the else branch
SearchSpace ==
    {"estimator__colsample_bytree", "estimator__extra_trees",
     "estimator__path_smooth"}
prepare_lenient(obj) ==
    IF obj \in {"binary", "multiclass"}
    THEN [raised |-> FALSE, estimator |-> "LGBMClassifier", space |-> SearchSpace]
    ELSE [raised |-> FALSE, estimator |-> "LGBMRegressor", space |-> SearchSpace]
prepare(obj) ==
    IF obj = "regression"
    THEN [raised |-> FALSE, estimator |-> "LGBMRegressor", space |-> SearchSpace]
    ELSE IF obj = "binary" \/ obj = "multiclass"
    THEN [raised |-> FALSE, estimator |-> "LGBMClassifier", space |-> SearchSpace]
    ELSE [raised |-> TRUE, estimator |-> "none", space |-> {}]

\* RepeatedGroupKFold(n_splits = k).split(X, groups = gs), one repeat: an
\* assignment of the distinct group ids to the folds 1..k in which every fold
\* gets a group and the folds' group counts differ by at most one.  No
\* assignment exists when there are fewer groups than folds.
FoldAssignments(gs, k) ==
    {a \in [Range(gs) -> 1..k] :
        /\ \A f \in 1..k : \E gid \in Range(gs) : a[gid] = f
        /\ \A f1, f2 \in 1..k :
              Cardinality({gid \in Range(gs) : a[gid] = f1})
                <= Cardinality({gid \in Range(gs) : a[gid] = f2}) + 1}

\* the test rows of fold f are the rows of the groups assigned to f, the
\* train rows are all other rows
TestRowsUpTo(gs, a, f) == {i \in 1..Len(gs) : a[gs[i]] <= f}
TestRows(gs, a, f) == {i \in 1..Len(gs) : a[gs[i]] = f}
TrainRows(gs, a, f) == (1..Len(gs)) \ TestRows(gs, a, f)

\* the group labels handed to the outer splitter: cv.split(g, groups=g)
OuterGroupsByRow(gs) == [i \in 1..Len(gs) |-> i]
OuterGroups(gs) == gs
\* the group labels handed to the inner search: groups=g_trn
InnerGroupsByRow(gs) == [i \in 1..Len(gs) |-> i]
InnerGroups(gs) == gs

\* r2_score(y_tst, y_pred): at most 1, unbounded below, NaN with fewer than
\* two test rows.  balanced_accuracy_score(y_tst, y_pred, adjusted=True):
\* within [-1, 1] when y_tst holds two or more classes; with a single class
\* the chance level is 1 and the adjustment divides by zero, giving NaN
\* (recall 1) or -infinity (recall below 1).
R2Scores(ytst) ==
    IF Len(ytst) < 2 THEN {NaN}
    ELSE {Rat(s) : s \in (0 - MaxNegScore)..1}
BalAccScores(ytst) ==
    IF Cardinality(Range(ytst)) < 2 THEN {NaN, NegInf}
    ELSE {Rat(s) : s \in (0 - 1)..1}
FoldScores(obj, ytst) ==
    IF obj = "regression" THEN R2Scores(ytst) ELSE BalAccScores(ytst)

\* the metric behind a scoring name of RandomizedSearchCV: the name
\* 'balanced_accuracy' is balanced_accuracy_score with its default
\* adjusted=False
NoMetric == [fn |-> "none", adjusted |-> FALSE]
SklearnScorer(name) ==
    IF name = "r2" THEN [fn |-> "r2_score", adjusted |-> FALSE]
    ELSE IF name = "balanced_accuracy"
    THEN [fn |-> "balanced_accuracy_score", adjusted |-> FALSE]
    ELSE NoMetric
\* the metric of lines 284-297 that scores the outer-test predictions
OuterMetricUnadjusted(obj) ==
    IF obj = "regression" THEN [fn |-> "r2_score", adjusted |-> FALSE]
    ELSE IF obj = "binary" \/ obj = "multiclass"
    THEN [fn |-> "balanced_accuracy_score", adjusted |-> FALSE]
    ELSE NoMetric
OuterMetric(obj) ==
    IF obj = "regression" THEN [fn |-> "r2_score", adjusted |-> FALSE]
    ELSE IF obj = "binary" \/ obj = "multiclass"
    THEN [fn |-> "balanced_accuracy_score", adjusted |-> TRUE]
    ELSE NoMetric

\* RandomizedSearchCV(..., error_score=0), lines 262-276: a failed fit or
\* score is recorded as 0 and the search raises only when all fits failed
SearchAbortsOnAny(nerr, nfits) == nerr > 0
SearchAborts(nerr, nfits) == nerr = nfits

\* task[key] = val on the mutable dict of the task
DictSetClobber(d, key, val) ==
    (key :> val) @@ [kk \in DOMAIN d |->
                        IF kk \in {"N_PRED_OUTER_CV", "N_PRED_INNER_CV"}
                        THEN val ELSE d[kk]]
DictSetDefault(d, key, val) ==
    IF key \in DOMAIN d THEN d ELSE (key :> val) @@ d
DictSet(d, key, val) == (key :> val) @@ d

(***************************************************************************)
(* Inputs                                                                  *)
(***************************************************************************)
Objectives == {"regression", "binary", "multiclass", "ordinal"}

\* the role lists of the task: each column name in exactly one list
RoleConfigs ==
    {[X_CON_NAMES |-> <<"c">>, X_CAT_BIN_NAMES |-> <<>>,
      X_CAT_MULT_NAMES |-> <<>>, Y_NAMES |-> <<"t">>],
     [X_CON_NAMES |-> <<>>, X_CAT_BIN_NAMES |-> <<"b">>,
      X_CAT_MULT_NAMES |-> <<>>, Y_NAMES |-> <<"t">>],
     [X_CON_NAMES |-> <<>>, X_CAT_BIN_NAMES |-> <<>>,
      X_CAT_MULT_NAMES |-> <<"m">>, Y_NAMES |-> <<"t">>],
     [X_CON_NAMES |-> <<"c">>, X_CAT_BIN_NAMES |-> <<"b">>,
      X_CAT_MULT_NAMES |-> <<>>, Y_NAMES |-> <<"t">>]}

\* role lists in which a predictor is also named among the targets: main()
\* designates the names of Y_NAMES one at a time, and while the first one is
\* the designated target the later ones stay in Y_NAMES
OverlapConfigs ==
    {[X_CON_NAMES |-> <<"c">>, X_CAT_BIN_NAMES |-> <<>>,
      X_CAT_MULT_NAMES |-> <<>>, Y_NAMES |-> <<"t", "c">>],
     [X_CON_NAMES |-> <<>>, X_CAT_BIN_NAMES |-> <<"b">>,
      X_CAT_MULT_NAMES |-> <<>>, Y_NAMES |-> <<"t", "b">>],
     [X_CON_NAMES |-> <<>>, X_CAT_BIN_NAMES |-> <<>>,
      X_CAT_MULT_NAMES |-> <<"m">>, Y_NAMES |-> <<"t", "m">>],
     [X_CON_NAMES |-> <<"c">>, X_CAT_BIN_NAMES |-> <<"b">>,
      X_CAT_MULT_NAMES |-> <<>>, Y_NAMES |-> <<"t", "b", "c">>]}

\* group vectors over the rows: ids start at 1 and grow by at most one, so
\* every partition of the rows into runs of equal ids occurs once
GroupVectors ==
    {v \in [1..NRows -> 1..NRows] :
        v[1] = 1 /\ \A i \in 1..(NRows - 1) : v[i+1] \in {v[i], v[i] + 1}}

\* the same for a group vector of n rows
GroupVectorsOf(n) ==
    {v \in [1..n -> 1..n] :
        v[1] = 1 /\ \A i \in 1..(n - 1) : v[i+1] \in {v[i], v[i] + 1}}

\* the column order the ColumnTransformer of eda() produces
ColTransColumns(tk) ==
    tk.X_CON_NAMES \o tk.X_CAT_BIN_NAMES \o tk.X_CAT_MULT_NAMES \o tk.y_name

VARIABLES
    task, g, z, redundancy, pairs, id_pred1, id_pred2, objective, xt, yt,
    estimator, space, scores, cv, gen, i_cv, i_trn, i_tst,
    g_trn, g_tst, x_trn, x_tst, y_trn, y_tst, scorer, igen, in_trn, in_tst,
    n_error_score, metric, ret, pc, err,
    calls, writes, nsplits, ninner, tested, reported,
    G, X, Y, main_g, main_x, main_y

\* main(): the sheets G, X, Y as read and the tables g, x, y made of them
mainVars == <<G, X, Y, main_g, main_x, main_y>>
inputVars == <<g, z>>
edaVars == <<redundancy, pairs, id_pred1, id_pred2, objective, xt, yt>>
prepVars == <<estimator, space, scores>>
outerVars == <<cv, gen, i_cv, i_trn, i_tst, g_trn, g_tst, x_trn, x_tst,
               y_trn, y_tst, nsplits, tested>>
innerVars == <<scorer, igen, in_trn, in_tst, ninner, n_error_score, metric>>
histVars == <<calls, writes, reported>>
vars == <<task, inputVars, edaVars, prepVars, outerVars, innerVars, ret, pc,
          err, histVars, mainVars>>

NoGen == [rep |-> 0, fold |-> 0, assign |-> <<>>]
NoCV == [n_splits |-> 0, n_repeats |-> 0]
NCols == Len(z.columns)
Cells == (0..(NCols - 1)) \X (0..(NCols - 1))
One == Rat(1)

\* the inner repeats of an outer-train partition that leaves out one of k
\* folds of even size
InnerRepeatsOf(pi, k) == Ceil(pi, NRows - (NRows \div k))

\* eda() taken on its own: nothing of main() is in the state
MainIdle ==
    /\ G = <<>> /\ X = <<>> /\ Y = <<>>
    /\ main_g = <<>> /\ main_x = <<>> /\ main_y = <<>>

\* the locals of a compute_redundancy() call before its first statement
FrameInit ==
    /\ estimator = "none" /\ space = {} /\ scores = <<>>
    /\ cv = NoCV /\ gen = NoGen /\ i_cv = 0 - 1
    /\ i_trn = {} /\ i_tst = {}
    /\ g_trn = <<>> /\ g_tst = <<>> /\ x_trn = <<>> /\ x_tst = <<>>
    /\ y_trn = <<>> /\ y_tst = <<>>
    /\ scorer = "none" /\ igen = NoGen /\ in_trn = {} /\ in_tst = {}
    /\ nsplits = 0 /\ ninner = 0
    /\ n_error_score = 0 /\ metric = NoMetric
    /\ tested = [i \in 1..Len(g) |-> 0]

\* eda() at line 633: the matrix is seeded with ones and the iterator over
\* the ordered pairs of column ids is created
Init ==
    \E rc \in RoleConfigs, obj \in Objectives, gv \in GroupVectors,
       k \in 2..MaxFolds, po \in {NRows, MaxPredOuter},
       pi \in {2, MaxPredInner} :
        LET tk == [N_CV_FOLDS |-> k, N_PRED_OUTER_CV |-> po,
                   N_PRED_INNER_CV |-> pi, OBJECTIVE |-> obj,
                   X_CON_NAMES |-> rc.X_CON_NAMES,
                   X_CAT_BIN_NAMES |-> rc.X_CAT_BIN_NAMES,
                   X_CAT_MULT_NAMES |-> rc.X_CAT_MULT_NAMES,
                   Y_NAMES |-> rc.Y_NAMES, y_name |-> <<rc.Y_NAMES[1]>>]
            cols == ColTransColumns(tk)
            n == Len(cols)
        IN  /\ n * (n - 1) * k * Ceil(po, NRows) * InnerRepeatsOf(pi, k)
                <= MaxBuildFolds
            /\ task = tk
            /\ g = gv
            /\ z = [columns |-> cols, data |-> [nm \in Range(cols) |-> ColData[nm]]]
            /\ redundancy = [cell \in (0..(n - 1)) \X (0..(n - 1)) |-> One]
            /\ pairs = Permutations2(Factorize(cols))
            /\ id_pred1 = 0 - 1 /\ id_pred2 = 0 - 1
            /\ objective = "none" /\ xt = <<>> /\ yt = <<>>
            /\ FrameInit
            /\ MainIdle
            /\ ret = NaN /\ pc = "eda_loop" /\ err = "none"
            /\ calls = [cell \in (0..(n - 1)) \X (0..(n - 1)) |-> 0]
            /\ writes = <<>>
            /\ reported = FALSE

(***************************************************************************)
(* eda(): the matrix builder                                               *)
(***************************************************************************)
\* lines 636-680: objective and data of the pair (id1, id2), chosen by the
\* role list that holds the name of the predicted column id2
Select(tk, zz, id1, id2, obj, factorized) ==
    [raised |-> FALSE, objective |-> obj,
     xt |-> zz.data[zz.columns[id1 + 1]],
     yt |-> IF factorized THEN Factorize(zz.data[zz.columns[id2 + 1]])
                          ELSE zz.data[zz.columns[id2 + 1]]]
DispatchMultAsClass(tk, zz, id1, id2) ==
    LET name == zz.columns[id2 + 1]
    IN  IF name \in Range(tk.X_CON_NAMES)
        THEN Select(tk, zz, id1, id2, "regression", FALSE)
        ELSE IF name \in Range(tk.X_CAT_BIN_NAMES)
        THEN Select(tk, zz, id1, id2, "binary", TRUE)
        ELSE IF name \in Range(tk.X_CAT_MULT_NAMES)
        THEN Select(tk, zz, id1, id2, "multiclass", TRUE)
        ELSE IF name \in Range(tk.Y_NAMES)
        THEN Select(tk, zz, id1, id2, tk.OBJECTIVE, tk.OBJECTIVE # "regression")
        ELSE [raised |-> TRUE, objective |-> "none", xt |-> <<>>, yt |-> <<>>]
DispatchTargetRaw(tk, zz, id1, id2) ==
    LET name == zz.columns[id2 + 1]
    IN  IF name \in Range(tk.X_CON_NAMES)
        THEN Select(tk, zz, id1, id2, "regression", FALSE)
        ELSE IF name \in Range(tk.X_CAT_BIN_NAMES)
        THEN Select(tk, zz, id1, id2, "binary", TRUE)
        ELSE IF name \in Range(tk.X_CAT_MULT_NAMES)
        THEN Select(tk, zz, id1, id2, "regression", FALSE)
        ELSE IF name \in Range(tk.Y_NAMES)
        THEN Select(tk, zz, id1, id2, tk.OBJECTIVE, FALSE)
        ELSE [raised |-> TRUE, objective |-> "none", xt |-> <<>>, yt |-> <<>>]
DispatchElseRegression(tk, zz, id1, id2) ==
    LET name == zz.columns[id2 + 1]
    IN  IF name \in Range(tk.X_CAT_BIN_NAMES)
        THEN Select(tk, zz, id1, id2, "binary", TRUE)
        ELSE IF name \in Range(tk.Y_NAMES)
        THEN Select(tk, zz, id1, id2, tk.OBJECTIVE, tk.OBJECTIVE # "regression")
        ELSE Select(tk, zz, id1, id2, "regression", FALSE)
DispatchTargetFirst(tk, zz, id1, id2) ==
    LET name == zz.columns[id2 + 1]
    IN  IF name \in Range(tk.Y_NAMES)
        THEN Select(tk, zz, id1, id2, tk.OBJECTIVE, tk.OBJECTIVE # "regression")
        ELSE IF name \in Range(tk.X_CON_NAMES)
        THEN Select(tk, zz, id1, id2, "regression", FALSE)
        ELSE IF name \in Range(tk.X_CAT_BIN_NAMES)
        THEN Select(tk, zz, id1, id2, "binary", TRUE)
        ELSE IF name \in Range(tk.X_CAT_MULT_NAMES)
        THEN Select(tk, zz, id1, id2, "regression", FALSE)
        ELSE [raised |-> TRUE, objective |-> "none", xt |-> <<>>, yt |-> <<>>]
Dispatch(tk, zz, id1, id2) ==
    LET name == zz.columns[id2 + 1]
    IN  IF name \in Range(tk.X_CON_NAMES)
        THEN Select(tk, zz, id1, id2, "regression", FALSE)
        ELSE IF name \in Range(tk.X_CAT_BIN_NAMES)
        THEN Select(tk, zz, id1, id2, "binary", TRUE)
        ELSE IF name \in Range(tk.X_CAT_MULT_NAMES)
        THEN Select(tk, zz, id1, id2, "regression", FALSE)
        ELSE IF name \in Range(tk.Y_NAMES)
        THEN Select(tk, zz, id1, id2, tk.OBJECTIVE, tk.OBJECTIVE # "regression")
        ELSE [raised |-> TRUE, objective |-> "none", xt |-> <<>>, yt |-> <<>>]

\* raise: no try statement surrounds the loop of eda() or the body of
\* compute_redundancy(), so an exception ends the build
RaiseSwallowed(msg) == pc' = "eda_loop" /\ err' = msg
Raise(msg) == pc' = "error" /\ err' = msg

\* lines 633-683, up to the call: the for loop takes the next pair and
\* selects objective, predictor and target; compute_redundancy is entered
NextPair ==
    /\ pc = "eda_loop"
    /\ pairs # <<>>
    /\ LET id1 == Head(pairs)[1]
           id2 == Head(pairs)[2]
           d == Dispatch(task, z, id1, id2)
       IN  /\ pairs' = Tail(pairs)
           /\ id_pred1' = id1
           /\ id_pred2' = id2
           /\ IF d.raised
              THEN /\ Raise("OBJECTIVE not found.")
                   /\ UNCHANGED <<objective, xt, yt, calls>>
              ELSE /\ objective' = d.objective
                   /\ xt' = d.xt
                   /\ yt' = d.yt
                   /\ calls' = [calls EXCEPT ![<<id1, id2>>] = @ + 1]
                   /\ pc' = "cr_prepare"
                   /\ err' = err
    /\ UNCHANGED <<task, inputVars, redundancy, prepVars, outerVars,
                   innerVars, ret, writes, reported>>
    /\ UNCHANGED mainVars

\* line 682: the returned score is written to the cell of the pair; the
\* frame of the finished call is gone
FrameReset ==
    /\ estimator' = "none" /\ space' = {} /\ scores' = <<>>
    /\ cv' = NoCV /\ gen' = NoGen /\ i_cv' = 0 - 1
    /\ i_trn' = {} /\ i_tst' = {}
    /\ g_trn' = <<>> /\ g_tst' = <<>> /\ x_trn' = <<>> /\ x_tst' = <<>>
    /\ y_trn' = <<>> /\ y_tst' = <<>>
    /\ scorer' = "none" /\ igen' = NoGen /\ in_trn' = {} /\ in_tst' = {}
    /\ nsplits' = 0 /\ ninner' = 0
    /\ n_error_score' = 0 /\ metric' = NoMetric
    /\ tested' = [i \in 1..Len(g) |-> 0]
\* redundancy[id_pred1, id_pred2] = value on the numpy matrix
SetCellSymmetric(m, i, j, v) == [m EXCEPT ![<<i, j>>] = v, ![<<j, i>>] = v]
SetCell(m, i, j, v) == [m EXCEPT ![<<i, j>>] = v]
StoreCell ==
    /\ pc = "eda_store"
    /\ redundancy' = SetCell(redundancy, id_pred1, id_pred2, ret)
    /\ writes' = Append(writes, <<id_pred1, id_pred2>>)
    /\ FrameReset
    /\ ret' = NaN
    /\ pc' = "eda_loop"
    /\ UNCHANGED <<task, inputVars, pairs, id_pred1, id_pred2, objective,
                   xt, yt, err, calls, reported>>
    /\ UNCHANGED mainVars

\* lines 684-735: the loop is exhausted, the matrix goes to the heatmap and
\* is saved
Report ==
    /\ pc = "eda_loop"
    /\ pairs = <<>>
    /\ reported' = TRUE
    /\ pc' = "done"
    /\ UNCHANGED <<task, inputVars, edaVars, prepVars, outerVars, innerVars,
                   ret, err, calls, writes>>
    /\ UNCHANGED mainVars

(***************************************************************************)
(* compute_redundancy(): the pairwise scorer                               *)
(***************************************************************************)
\* lines 218-222: the score list is created and prepare() is called
Prepare ==
    /\ pc = "cr_prepare"
    /\ scores' = <<>>
    /\ LET p == prepare(objective)
       IN  IF p.raised
           THEN /\ Raise("OBJECTIVE not found.")
                /\ UNCHANGED <<estimator, space>>
           ELSE /\ estimator' = p.estimator
                /\ space' = p.space
                /\ pc' = "cr_setup"
                /\ err' = err
    /\ UNCHANGED <<task, inputVars, edaVars, outerVars, innerVars, ret,
                   histVars>>
    /\ UNCHANGED mainVars

\* lines 225-231: the outer repeat count is stored in the task and the
\* outer splitter is instantiated
OuterSetup ==
    /\ pc = "cr_setup"
    /\ task' = DictSet(task, "n_rep_outer_cv",
                        Ceil(task.N_PRED_OUTER_CV, Len(g)))
    /\ cv' = [n_splits |-> task.N_CV_FOLDS, n_repeats |-> task'.n_rep_outer_cv]
    /\ gen' = [rep |-> 1, fold |-> 0, assign |-> <<>>]
    /\ pc' = "cr_split"
    /\ UNCHANGED <<inputVars, edaVars, prepVars, i_cv, i_trn, i_tst, g_trn,
                   g_tst, x_trn, x_tst, y_trn, y_tst, nsplits, tested,
                   innerVars, ret, err, histVars>>
    /\ UNCHANGED mainVars

\* the splitter as a generator: the splits it may yield next, and its state
\* after yielding one.  A repeat draws its fold assignment when its first
\* split is asked for; with fewer groups than folds nothing can be yielded
\* and the splitter raises.
Yields(gs, k, gn) ==
    IF gn.fold = 0
    THEN {[assign |-> a, fold |-> 1] : a \in FoldAssignments(gs, k)}
    ELSE {[assign |-> gn.assign, fold |-> gn.fold + 1]}
Advance(gn, y, k) ==
    IF y.fold = k
    THEN [rep |-> gn.rep + 1, fold |-> 0, assign |-> <<>>]
    ELSE [rep |-> gn.rep, fold |-> y.fold, assign |-> y.assign]

\* the end of a for loop over a splitter with reps repeats
ExhaustedAfterFirst(gn, reps) == gn.rep > 1
Exhausted(gn, reps) == gn.rep > reps

\* lines 233-241: the loop takes the next outer split and slices groups,
\* targets and predictors; a position outside the target or predictor table
\* raises the IndexError of iloc
OuterSplit ==
    /\ pc = "cr_split"
    /\ ~Exhausted(gen, cv.n_repeats)
    /\ LET gs == OuterGroups(g)
           ys == Yields(gs, cv.n_splits, gen)
       IN  IF ys = {}
           THEN /\ Raise("n_splits greater than the number of groups")
                /\ UNCHANGED <<outerVars, g, xt, yt>>
           ELSE \E y \in ys :
                LET trn == TrainRows(gs, y.assign, y.fold)
                    tst == TestRows(gs, y.assign, y.fold)
                    sg == split_data(g, trn, tst)
                    sy == split_data(yt, trn, tst)
                    sx == split_data(xt, trn, tst)
                IN  /\ gen' = Advance(gen, y, cv.n_splits)
                    /\ i_cv' = i_cv + 1
                    /\ i_trn' = trn
                    /\ i_tst' = tst
                    /\ nsplits' = nsplits + 1
                    /\ tested' = [i \in 1..Len(g) |->
                                    (IF y.fold = 1 THEN 0 ELSE tested[i])
                                    + (IF i \in tst THEN 1 ELSE 0)]
                    /\ g_trn' = sg.trn
                    /\ g_tst' = sg.tst
                    /\ g' = sg.df
                    /\ cv' = cv
                    /\ IF sy.raised
                       THEN /\ Raise("IndexError")
                            /\ UNCHANGED <<y_trn, y_tst, x_trn, x_tst, xt, yt>>
                       ELSE /\ y_trn' = sy.trn
                            /\ y_tst' = sy.tst
                            /\ yt' = sy.df
                            /\ IF sx.raised
                               THEN /\ Raise("IndexError")
                                    /\ UNCHANGED <<x_trn, x_tst, xt>>
                               ELSE /\ x_trn' = sx.trn
                                    /\ x_tst' = sx.tst
                                    /\ xt' = sx.df
                                    /\ pc' = "cr_tune"
                                    /\ err' = err
    /\ UNCHANGED <<task, z, redundancy, pairs, id_pred1, id_pred2, objective,
                   prepVars, innerVars, ret, histVars>>
    /\ UNCHANGED mainVars

\* the scoring name of lines 243-255
Scorer(obj) ==
    IF obj = "regression" THEN "r2"
    ELSE IF obj = "binary" \/ obj = "multiclass" THEN "balanced_accuracy"
    ELSE "raise"

\* g_trn.shape[0] of line 260: the rows of the outer-train partition
TestShape(gtrn, gtst) == Len(gtst)
TrainShape(gtrn, gtst) == Len(gtrn)

\* lines 243-276: the scorer is chosen, the inner repeat count is stored in
\* the task and the random search is instantiated with the inner splitter
Tune ==
    /\ pc = "cr_tune"
    /\ IF Scorer(objective) = "raise"
       THEN /\ Raise("OBJECTIVE not found.")
            /\ UNCHANGED <<task, innerVars>>
       ELSE /\ scorer' = Scorer(objective)
            /\ task' = DictSet(task, "n_rep_inner_cv",
                                Ceil(task.N_PRED_INNER_CV,
                                     TrainShape(g_trn, g_tst)))
            /\ igen' = [rep |-> 1, fold |-> 0, assign |-> <<>>]
            /\ in_trn' = {}
            /\ in_tst' = {}
            /\ ninner' = 0
            /\ n_error_score' = 0
            /\ metric' = metric
            /\ pc' = "cr_fit"
            /\ err' = err
    /\ UNCHANGED <<inputVars, edaVars, prepVars, outerVars, ret, histVars>>
    /\ UNCHANGED mainVars

\* line 278, search.fit: the search draws the next inner split of the
\* outer-train rows from its splitter and fits and scores the candidates on
\* it; a fit or score that raises is recorded with error_score = 0 and the
\* search goes on (the candidates of one split are taken to fail together)
InnerSplit ==
    /\ pc = "cr_fit"
    /\ ~Exhausted(igen, task.n_rep_inner_cv)
    /\ LET gs == InnerGroups(g_trn)
           ys == Yields(gs, task.N_CV_FOLDS, igen)
       IN  IF ys = {}
           THEN /\ Raise("n_splits greater than the number of groups")
                /\ UNCHANGED innerVars
           ELSE \E y \in ys, failed \in BOOLEAN :
                    /\ igen' = Advance(igen, y, task.N_CV_FOLDS)
                    /\ in_trn' = TrainRows(gs, y.assign, y.fold)
                    /\ in_tst' = TestRows(gs, y.assign, y.fold)
                    /\ ninner' = ninner + 1
                    /\ n_error_score' = n_error_score + (IF failed THEN 1 ELSE 0)
                    /\ UNCHANGED <<scorer, metric, pc, err>>
    /\ UNCHANGED <<task, inputVars, edaVars, prepVars, outerVars, ret,
                   histVars>>
    /\ UNCHANGED mainVars

\* lines 278-297: all inner splits are drawn.  The search raises when every
\* fit failed; otherwise the best candidate is refit on the outer-train rows,
\* the outer-test rows are predicted and the fold's score is appended.  The
\* refit, the prediction and the outer score are not guarded: an error of
\* the estimator there leaves compute_redundancy as an exception.
PredictScore ==
    /\ pc = "cr_fit"
    /\ Exhausted(igen, task.n_rep_inner_cv)
    /\ IF SearchAborts(n_error_score, ninner)
       THEN /\ Raise("All the fits failed")
            /\ UNCHANGED <<scores, innerVars>>
       ELSE \/ /\ Raise("estimator error")
               /\ UNCHANGED <<scores, innerVars>>
            \/ /\ IF OuterMetric(objective) = NoMetric
                  THEN /\ Raise("OBJECTIVE not found.")
                       /\ UNCHANGED <<scores, innerVars>>
                  ELSE /\ \E s \in FoldScores(objective, y_tst) :
                              scores' = Append(scores, s)
                       /\ metric' = OuterMetric(objective)
                       /\ igen' = NoGen
                       /\ in_trn' = {}
                       /\ in_tst' = {}
                       /\ n_error_score' = 0
                       /\ pc' = "cr_split"
                       /\ UNCHANGED <<scorer, ninner, err>>
    /\ UNCHANGED <<task, inputVars, edaVars, estimator, space, outerVars,
                   ret, histVars>>
    /\ UNCHANGED mainVars

\* lines 299-304: the outer loop is exhausted; the mean of the fold scores,
\* floored at zero, is returned
Aggregate ==
    /\ pc = "cr_split"
    /\ Exhausted(gen, cv.n_repeats)
    /\ ret' = Max0(Mean(scores))
    /\ pc' = "eda_store"
    /\ UNCHANGED <<task, inputVars, edaVars, prepVars, outerVars, innerVars,
                   err, histVars>>
    /\ UNCHANGED mainVars

Next ==
    \/ NextPair
    \/ StoreCell
    \/ Report
    \/ Prepare
    \/ OuterSetup
    \/ OuterSplit
    \/ Tune
    \/ InnerSplit
    \/ PredictScore
    \/ Aggregate

Spec == Init /\ [][Next]_vars

(***************************************************************************)
(* The build as a sequential program: Python runs the next statement       *)
(* whenever there is one, so a step that is continuously possible is       *)
(* eventually taken.  The builds are those of the table with one           *)
(* continuous predictor and the target, at the least inner target.         *)
(***************************************************************************)
InitSeq == Init /\ z.columns = <<"c", "t">> /\ task.N_PRED_INNER_CV = 2
FairSpec == InitSeq /\ [][Next]_vars /\ WF_vars(Next)

(***************************************************************************)
(* eda() called with arguments main() would not pass: the designated       *)
(* target task['y_name'] need not be in Y_NAMES, and the group vector need *)
(* not have the rows of the table                                          *)
(***************************************************************************)
InitEda ==
    \E rc \in RoleConfigs, yn \in {"t", "u"}, obj \in Objectives,
       rows \in (NRows - MaxRowDiff)..(NRows + MaxRowDiff),
       k \in 2..MaxFolds, pi \in {2, MaxPredInner} :
      \E gv \in GroupVectorsOf(rows) :
        LET tk == [N_CV_FOLDS |-> k, N_PRED_OUTER_CV |-> NRows,
                   N_PRED_INNER_CV |-> pi, OBJECTIVE |-> obj,
                   X_CON_NAMES |-> rc.X_CON_NAMES,
                   X_CAT_BIN_NAMES |-> rc.X_CAT_BIN_NAMES,
                   X_CAT_MULT_NAMES |-> rc.X_CAT_MULT_NAMES,
                   Y_NAMES |-> rc.Y_NAMES, y_name |-> <<yn>>]
            cols == ColTransColumns(tk)
            n == Len(cols)
        IN  /\ n * (n - 1) * k * Ceil(NRows, rows) * InnerRepeatsOf(pi, k)
                <= MaxBuildFolds
            /\ task = tk
            /\ g = gv
            /\ z = [columns |-> cols, data |-> [nm \in Range(cols) |-> ColData[nm]]]
            /\ redundancy = [cell \in (0..(n - 1)) \X (0..(n - 1)) |-> One]
            /\ pairs = Permutations2(Factorize(cols))
            /\ id_pred1 = 0 - 1 /\ id_pred2 = 0 - 1
            /\ objective = "none" /\ xt = <<>> /\ yt = <<>>
            /\ FrameInit
            /\ MainIdle
            /\ ret = NaN /\ pc = "eda_loop" /\ err = "none"
            /\ calls = [cell \in (0..(n - 1)) \X (0..(n - 1)) |-> 0]
            /\ writes = <<>>
            /\ reported = FALSE

SpecEda == InitEda /\ [][Next]_vars

\* eda() at line 633 for a task whose Y_NAMES repeats names of the predictor
\* lists, entered for the first target of Y_NAMES
InitOverlap ==
    \E rc \in OverlapConfigs, obj \in Objectives, gv \in GroupVectors,
       k \in 2..MaxFolds, po \in {NRows, MaxPredOuter},
       pi \in {2, MaxPredInner} :
        LET tk == [N_CV_FOLDS |-> k, N_PRED_OUTER_CV |-> po,
                   N_PRED_INNER_CV |-> pi, OBJECTIVE |-> obj,
                   X_CON_NAMES |-> rc.X_CON_NAMES,
                   X_CAT_BIN_NAMES |-> rc.X_CAT_BIN_NAMES,
                   X_CAT_MULT_NAMES |-> rc.X_CAT_MULT_NAMES,
                   Y_NAMES |-> rc.Y_NAMES, y_name |-> <<rc.Y_NAMES[1]>>]
            cols == ColTransColumns(tk)
            n == Len(cols)
        IN  /\ n * (n - 1) * k * Ceil(po, NRows) * InnerRepeatsOf(pi, k)
                <= MaxBuildFolds
            /\ task = tk
            /\ g = gv
            /\ z = [columns |-> cols, data |-> [nm \in Range(cols) |-> ColData[nm]]]
            /\ redundancy = [cell \in (0..(n - 1)) \X (0..(n - 1)) |-> One]
            /\ pairs = Permutations2(Factorize(cols))
            /\ id_pred1 = 0 - 1 /\ id_pred2 = 0 - 1
            /\ objective = "none" /\ xt = <<>> /\ yt = <<>>
            /\ FrameInit
            /\ MainIdle
            /\ ret = NaN /\ pc = "eda_loop" /\ err = "none"
            /\ calls = [cell \in (0..(n - 1)) \X (0..(n - 1)) |-> 0]
            /\ writes = <<>>
            /\ reported = FALSE
SpecOverlap == InitOverlap /\ [][Next]_vars

(***************************************************************************)
(* main(), lines 1293-1340: the rows with a missing target are dropped,    *)
(* the tables are subsampled and eda() is called.  A table is a sequence   *)
(* of rows [label, orig, val, isna]: label is the pandas index label, orig *)
(* the row of the sheet the row was read from, val its value and isna      *)
(* tells a missing value.  Labels count from 1 here, from 0 in the source. *)
(***************************************************************************)
Min(a, b) == IF a <= b THEN a ELSE b
Sheet(vals, missing) ==
    [i \in 1..Len(vals) |->
        [label |-> i, orig |-> i, val |-> vals[i], isna |-> i \in missing]]
Labels(df) == [i \in 1..Len(df) |-> df[i].label]
Vals(df) == [i \in 1..Len(df) |-> df[i].val]
HasLabel(df, lab) == \E i \in 1..Len(df) : df[i].label = lab
RowAt(df, lab) == df[CHOOSE i \in 1..Len(df) : df[i].label = lab]
IsNotNa(row) == ~row.isna
\* df.dropna(): the rows without a missing value, labels kept
dropna(df) == SelectSeq(df, IsNotNa)
\* df.reindex(index=labels): the rows with the given labels, in their order;
\* a label the table lacks gives a row of missing values
reindex(df, labels) ==
    [i \in 1..Len(labels) |->
        IF HasLabel(df, labels[i]) THEN RowAt(df, labels[i])
        ELSE [label |-> labels[i], orig |-> 0, val |-> 0, isna |-> TRUE]]
\* df.loc[labels, :]: the rows with the given labels, in their order
locByPosition(df, labels) == [i \in 1..Len(labels) |-> df[i]]
loc(df, labels) == [i \in 1..Len(labels) |-> RowAt(df, labels[i])]
\* df.reset_index(drop=True): the rows relabelled by position
reset_index(df) == [i \in 1..Len(df) |-> [df[i] EXCEPT !.label = i]]
\* df.sample(n, ignore_index=False): n distinct rows in any order, labels kept
Samples(df, n) ==
    {[i \in 1..n |-> df[p[i]]] :
        p \in {q \in [1..n -> 1..Len(df)] :
                  \A i, j \in 1..n : i # j => q[i] # q[j]}}

InitMain ==
    \E gv \in GroupVectors, obj \in {"regression", "binary"},
       ms \in (NRows - 1)..MaxSamples,
       missing \in {m \in SUBSET (1..NRows) : Cardinality(m) <= MaxMissing} :
        /\ task = [N_CV_FOLDS |-> 2, N_PRED_OUTER_CV |-> NRows,
                   N_PRED_INNER_CV |-> 2, OBJECTIVE |-> obj,
                   X_CON_NAMES |-> <<"c">>, X_CAT_BIN_NAMES |-> <<>>,
                   X_CAT_MULT_NAMES |-> <<>>, Y_NAMES |-> <<"t">>,
                   MAX_SAMPLES |-> ms]
        /\ G = Sheet(gv, {})
        /\ X = Sheet(ColData.c, {})
        /\ Y = Sheet(ColData.t, missing)
        /\ main_g = <<>> /\ main_x = <<>> /\ main_y = <<>>
        /\ g = <<>>
        /\ z = [columns |-> <<>>, data |-> <<>>]
        /\ redundancy = <<>>
        /\ pairs = <<>>
        /\ id_pred1 = 0 - 1 /\ id_pred2 = 0 - 1
        /\ objective = "none" /\ xt = <<>> /\ yt = <<>>
        /\ FrameInit
        /\ ret = NaN /\ pc = "main_dropna" /\ err = "none"
        /\ calls = <<>>
        /\ writes = <<>>
        /\ reported = FALSE

\* lines 1295-1309: the target is designated, its rows with a missing value
\* are dropped and groups and predictors are taken at the labels left
MainDropNa ==
    /\ pc = "main_dropna"
    /\ task' = DictSet(DictSet(task, "i_y", 0), "y_name", <<task.Y_NAMES[1]>>)
    /\ LET y == dropna(Y)
       IN  /\ main_g' = reset_index(reindex(G, Labels(y)))
           /\ main_x' = reset_index(reindex(X, Labels(y)))
           /\ main_y' = reset_index(y)
    /\ pc' = "main_sample"
    /\ UNCHANGED <<inputVars, edaVars, prepVars, outerVars, innerVars, ret,
                   err, histVars, G, X, Y>>

\* lines 1311-1322: the predictors are subsampled and groups and targets
\* are sliced at the labels of the sample
MainSubsample ==
    /\ pc = "main_sample"
    /\ \E x \in Samples(main_x, Min(Len(main_x), task.MAX_SAMPLES)) :
          /\ main_g' = reset_index(loc(main_g, Labels(x)))
          /\ main_y' = reset_index(loc(main_y, Labels(x)))
          /\ main_x' = reset_index(x)
    /\ pc' = "main_eda"
    /\ UNCHANGED <<task, inputVars, edaVars, prepVars, outerVars, innerVars,
                   ret, err, histVars, G, X, Y>>

\* line 1340 and eda() up to line 634: eda(task, g, x, y) is called, the
\* columns are put in the order of the ColumnTransformer, the matrix is
\* seeded and the pair iterator is created
MainCallEda ==
    /\ pc = "main_eda"
    /\ LET cols == ColTransColumns(task)
           n == Len(cols)
       IN  /\ g' = Vals(main_g)
           /\ z' = [columns |-> cols,
                    data |-> [nm \in Range(cols) |->
                                IF nm \in Range(task.y_name)
                                THEN Vals(main_y) ELSE Vals(main_x)]]
           /\ redundancy' = [cell \in (0..(n - 1)) \X (0..(n - 1)) |-> One]
           /\ pairs' = Permutations2(Factorize(cols))
           /\ calls' = [cell \in (0..(n - 1)) \X (0..(n - 1)) |-> 0]
    /\ tested' = [i \in 1..Len(main_g) |-> 0]
    /\ pc' = "eda_loop"
    /\ UNCHANGED <<task, id_pred1, id_pred2, objective, xt, yt, prepVars,
                   cv, gen, i_cv, i_trn, i_tst, g_trn, g_tst, x_trn, x_tst,
                   y_trn, y_tst, nsplits, innerVars, ret, err, writes,
                   reported, mainVars>>

NextMain ==
    \/ MainDropNa
    \/ MainSubsample
    \/ MainCallEda
    \/ Next

SpecMain == InitMain /\ [][NextMain]_vars

(***************************************************************************)
(* Properties                                                              *)
(***************************************************************************)
Supported == {"regression", "binary", "multiclass"}
In01(v) == v.den > 0 /\ 0 <= v.num /\ v.num <= v.den
PredName == z.columns[id_pred2 + 1]
FeatName == z.columns[id_pred1 + 1]
RECURSIVE PrefixSum(_, _)
PrefixSum(s, n) == IF n = 0 THEN 0 ELSE PrefixSum(s, n - 1) + s[n].num
AllFinite(s) == \A i \in 1..Len(s) : s[i].den > 0
\* the least r with r * n >= p
LeastRepeats(p, n) == CHOOSE r \in 1..p : r * n >= p /\ (r - 1) * n < p
\* codes number the distinct values 0, 1, ... in order of first appearance
IsFactorizationOf(codes, vals) ==
    /\ Len(codes) = Len(vals)
    /\ \A i, j \in 1..Len(vals) : (codes[i] = codes[j]) <=> (vals[i] = vals[j])
    /\ \A i \in 1..Len(vals) :
          /\ codes[i] >= 0
          /\ \A c \in 0..(codes[i] - 1) : \E j \in 1..(i - 1) : codes[j] = c

\* C1: the score compute_redundancy returns lies in [0, 1]; every cell of the
\* redundancy matrix lies in [0, 1] and every diagonal cell is exactly 1,
\* whatever the fold scores were (negative, NaN and -infinity included).
C1_RangeInvariant ==
    /\ pc = "eda_store" => In01(ret)
    /\ \A cell \in Cells : In01(redundancy[cell])
    /\ \A i \in 0..(NCols - 1) : redundancy[<<i, i>>] = One
C1_Witness ==
    /\ pc = "eda_store"
    /\ writes # <<>>
    /\ \E i \in 1..Len(scores) : scores[i].num < 0
    /\ AllFinite(scores) /\ PrefixSum(scores, Len(scores)) < 0
    /\ ret = Rat(0)

\* C2: in every split generated, outer (over all rows) or inner (over the
\* outer-train rows), no group id occurs among both the train rows and the
\* test rows.
OuterTrainRow(i) == SetToSortedSeq(i_trn)[i]
C2_GroupLeakage ==
    /\ {g[i] : i \in i_trn} \cap {g[i] : i \in i_tst} = {}
    /\ in_trn \cup in_tst \subseteq 1..Cardinality(i_trn)
    /\ {g[OuterTrainRow(i)] : i \in in_trn}
           \cap {g[OuterTrainRow(i)] : i \in in_tst} = {}
C2_Witness ==
    /\ pc = "cr_fit"
    /\ in_trn # {} /\ in_tst # {} /\ i_tst # {}
    /\ \E i, j \in i_trn : i # j /\ g[i] = g[j]

\* C3: a call of compute_redundancy that returns has drawn exactly
\* k * ceil(P / n) outer splits and collected that many fold scores; it never
\* draws more.
C3_FoldCount ==
    LET total == task.N_CV_FOLDS * LeastRepeats(task.N_PRED_OUTER_CV, Len(g))
    IN  /\ nsplits <= total
        /\ pc = "eda_store" => nsplits = total /\ Len(scores) = total
C3_Witness ==
    /\ pc = "eda_store"
    /\ task.N_PRED_OUTER_CV % Len(g) # 0
    /\ nsplits = 2 * task.N_CV_FOLDS

\* C4: within a repeat of the outer splitter no row is in more than one test
\* set, the rows of a group are in the same test set, and once the k folds of
\* the repeat are drawn every row has been in exactly one test set.
C4_TestOnce ==
    /\ \A i \in 1..Len(g) : tested[i] <= 1
    /\ \A i, j \in 1..Len(g) : g[i] = g[j] => (i \in i_tst <=> j \in i_tst)
    /\ (nsplits > 0 /\ gen.fold = 0) => \A i \in 1..Len(g) : tested[i] = 1
C4_Witness ==
    /\ gen.fold = 0
    /\ nsplits = 2 * task.N_CV_FOLDS
    /\ \A i \in 1..Len(g) : tested[i] = 1

\* C5: when the predicted column is a predictor, objective and target are
\* chosen by its role alone: continuous gives regression on the raw values,
\* binary-categorical gives binary on the factorized labels, multi-categorical
\* gives regression on the raw values; the feature is always column i.
C5_PredictorDispatch ==
    (objective # "none" /\ PredName \notin Range(task.Y_NAMES)) =>
        /\ xt = z.data[FeatName]
        /\ PredName \in Range(task.X_CON_NAMES) =>
              objective = "regression" /\ yt = z.data[PredName]
        /\ PredName \in Range(task.X_CAT_BIN_NAMES) =>
              objective = "binary" /\ IsFactorizationOf(yt, z.data[PredName])
        /\ PredName \in Range(task.X_CAT_MULT_NAMES) =>
              objective = "regression" /\ yt = z.data[PredName]
C5_Witness ==
    /\ pc = "cr_prepare"
    /\ PredName \in Range(task.X_CAT_MULT_NAMES)
    /\ FeatName \in Range(task.Y_NAMES)
    /\ objective = "regression"
    /\ ~ IsFactorizationOf(yt, z.data[PredName])

\* C6: when the predicted column is the designated target, the objective is
\* the task's OBJECTIVE; the target is passed raw for regression and as
\* factorized labels for every other objective.
C6_TargetDispatch ==
    (objective # "none" /\ PredName \in Range(task.Y_NAMES)) =>
        /\ objective = task.OBJECTIVE
        /\ xt = z.data[FeatName]
        /\ IF task.OBJECTIVE = "regression"
           THEN yt = z.data[PredName]
           ELSE IsFactorizationOf(yt, z.data[PredName])
C6_Witness ==
    /\ pc = "cr_prepare"
    /\ PredName \in Range(task.Y_NAMES)
    /\ task.OBJECTIVE = "multiclass"
    /\ objective = "multiclass"
    /\ yt # z.data[PredName]

\* C7: the scorer is never invoked for i = j and at most once for a pair; the
\* diagonal is never written and keeps 1; when the build is complete every
\* ordered pair of distinct column positions was scored exactly once.
C7_OncePerPair ==
    /\ \A i \in 0..(NCols - 1) :
          /\ calls[<<i, i>>] = 0
          /\ redundancy[<<i, i>>] = One
          /\ <<i, i>> \notin Range(writes)
    /\ \A cell \in Cells : calls[cell] <= 1
    /\ pc = "done" =>
          /\ \A cell \in Cells : cell[1] # cell[2] => calls[cell] = 1
          /\ Len(writes) = NCols * (NCols - 1)
C7_Witness ==
    /\ pc = "done"
    /\ NCols = 3
    /\ Len(writes) = 6

\* C8: the returned redundancy is the arithmetic mean of all fold scores when
\* that mean is positive and 0 otherwise (a NaN or -infinite mean is not
\* greater than 0, so max(0, mean) is 0 as well).
C8_FlooredMean ==
    pc = "eda_store" =>
        LET n == Len(scores)
            total == PrefixSum(scores, n)
        IN  IF AllFinite(scores) /\ total > 0
            THEN ret.den > 0 /\ ret.num * n = total * ret.den
            ELSE ret = Rat(0)
C8_Witness ==
    /\ pc = "eda_store"
    /\ AllFinite(scores)
    /\ \E i \in 1..Len(scores) : scores[i].num < 0
    /\ PrefixSum(scores, Len(scores)) > 0
    /\ ret.num < ret.den

\* C9: with an objective outside regression, binary and multiclass the call
\* fails in prepare() with the unsupported-objective error: no estimator and
\* no search space exist, no split has been drawn, no score is collected or
\* returned, and the cell of the pair is not written.
C9_UnsupportedObjective ==
    (objective \notin Supported \cup {"none"}) =>
        /\ pc \in {"cr_prepare", "error"}
        /\ pc = "error" => err = "OBJECTIVE not found."
        /\ estimator = "none" /\ space = {}
        /\ cv = NoCV /\ nsplits = 0 /\ ninner = 0
        /\ scores = <<>> /\ ret = NaN
        /\ <<id_pred1, id_pred2>> \notin Range(writes)
C9_Witness ==
    /\ pc = "error"
    /\ objective = "ordinal"
    /\ err = "OBJECTIVE not found."

\* C10 as stated: when the task's objective is unsupported and the build has
\* failed with the unsupported-objective error, no cell has been written.
C10_NoCellWritten ==
    (task.OBJECTIVE \notin Supported /\ pc = "error"
        /\ err = "OBJECTIVE not found.") => writes = <<>>
\* C10 as amended: with an unsupported task objective the matrix is never
\* reported; the unsupported-objective error is raised at the first pair that
\* predicts the designated target, (0, n-1); the cells of the pairs before
\* it, (0,1) .. (0,n-2), are written, every other cell holds the seed 1.
C10_FailsAtFirstTargetPair ==
    task.OBJECTIVE \notin Supported =>
        /\ ~ reported /\ pc # "done"
        /\ (pc = "error" /\ err = "OBJECTIVE not found.") =>
              /\ <<id_pred1, id_pred2>> = <<0, NCols - 1>>
              /\ writes = [i \in 1..(NCols - 2) |-> <<0, i>>]
              /\ \A cell \in Cells :
                    cell \notin Range(writes) => redundancy[cell] = One
C10_Witness ==
    /\ task.OBJECTIVE = "ordinal"
    /\ pc = "error"
    /\ err = "OBJECTIVE not found."
    /\ writes = <<(<<0, 1>>)>>
    /\ NCols = 3

\* C11: a failure of the scorer for one pair ends the whole build: after the
\* failure no pair is scored, no cell is written and the matrix is never
\* reported; the matrix is reported only after all n(n-1) pairs were scored
\* and written without any failure.
C11_AbortOnFailure ==
    /\ [](/\ reported =>
               /\ err = "none"
               /\ pairs = <<>>
               /\ Len(writes) = NCols * (NCols - 1)
               /\ \A cell \in Cells : cell[1] # cell[2] => calls[cell] = 1
          /\ pc = "error" => (err # "none" /\ ~reported)
          /\ err # "none" => pc = "error")
    /\ [][pc = "error" =>
            (pc' = "error"
             /\ UNCHANGED <<calls, writes, redundancy, reported, pairs>>)]_vars
C11_Witness ==
    /\ pc = "error"
    /\ err = "estimator error"
    /\ writes # <<>>
    /\ pairs # <<>>
    /\ ~reported

\* C13: with fewer distinct groups than folds the splitter yields nothing and
\* raises the configuration error: the outer loop of a table with fewer than
\* N_CV_FOLDS groups never gets a split, and the inner search of an
\* outer-train partition with fewer than N_CV_FOLDS groups never gets one.
PartitionError == "n_splits greater than the number of groups"
C13_TooFewGroups ==
    /\ [](/\ Cardinality(Range(g)) < task.N_CV_FOLDS =>
               /\ nsplits = 0 /\ scores = <<>> /\ writes = <<>>
               /\ pc \in {"eda_loop", "cr_prepare", "cr_setup", "cr_split",
                           "error"}
          /\ (pc = "cr_fit" /\ Cardinality(Range(g_trn)) < task.N_CV_FOLDS)
               => ninner = 0
          /\ (pc = "error" /\ err = PartitionError) =>
               IF nsplits = 0
               THEN Cardinality(Range(g)) < task.N_CV_FOLDS
               ELSE /\ Cardinality(Range(g_trn)) < task.N_CV_FOLDS
                    /\ ninner = 0)
    /\ [][(\/ pc = "cr_split" /\ Cardinality(Range(g)) < task.N_CV_FOLDS
           \/ pc = "cr_fit" /\ Cardinality(Range(g_trn)) < task.N_CV_FOLDS)
          => (pc' = "error" /\ err' = PartitionError)]_vars
C13_Witness ==
    /\ pc = "error"
    /\ err = PartitionError
    /\ Cardinality(Range(g)) < task.N_CV_FOLDS
    /\ nsplits = 0
    /\ calls[<<id_pred1, id_pred2>>] = 1

\* C12: a predicted column whose name is in none of the four role lists
\* makes the build fail with the configuration error when its first pair is
\* taken: the scorer is not called for that pair, and no further pair is
\* processed (no call, no write, no report).
InNoRoleList(id) ==
    LET name == z.columns[id + 1]
    IN  /\ name \notin Range(task.X_CON_NAMES)
        /\ name \notin Range(task.X_CAT_BIN_NAMES)
        /\ name \notin Range(task.X_CAT_MULT_NAMES)
        /\ name \notin Range(task.Y_NAMES)
C12_UnknownRoleFatal ==
    /\ [](/\ \A cell \in Cells :
                InNoRoleList(cell[2]) =>
                    (calls[cell] = 0 /\ redundancy[cell] = One)
          /\ (id_pred2 >= 0 /\ InNoRoleList(id_pred2)) =>
                /\ pc = "error"
                /\ err = "OBJECTIVE not found."
                /\ ~reported
                /\ \A i \in 1..Len(pairs) : calls[pairs[i]] = 0)
    /\ [][(pc = "eda_loop" /\ pairs # <<>> /\ InNoRoleList(Head(pairs)[2]))
            => (pc' = "error" /\ err' = "OBJECTIVE not found."
                /\ UNCHANGED <<calls, writes, redundancy, reported>>)]_vars
C12_Witness ==
    /\ pc = "error"
    /\ id_pred2 >= 0
    /\ InNoRoleList(id_pred2)
    /\ writes # <<>>
    /\ pairs # <<>>

\* C14: when the group vector and the predictor/target tables of a scorer
\* call differ in their row counts, the call fails before any
\* cross-validation work: no outer split is generated, no inner split is
\* drawn and no fold is scored.
C14_MismatchFailsBeforeCV ==
    (xt # <<>> /\ (Len(g) # Len(xt) \/ Len(g) # Len(yt))) =>
        /\ nsplits = 0
        /\ ninner = 0
        /\ scores = <<>>
        /\ pc \in {"cr_prepare", "cr_setup", "cr_split", "error"}

\* C15 as stated: an error of the estimator on a single fold never aborts
\* the pairwise computation.
C15_FoldErrorNeverAborts ==
    pc = "error" => err \notin {"estimator error"}
\* C15: a fit or score error on an inner-validation fold of the search is
\* absorbed (recorded with error_score 0): the search goes on to its next
\* split, and unless all of its fits failed the outer fold still contributes
\* its score.  An error in the refit, the prediction or the score of an
\* outer fold is raised only after the search, and ends the computation.
C15_InnerErrorAbsorbed ==
    /\ [](/\ n_error_score \in 0..ninner
          /\ (pc = "error" /\ err = "All the fits failed") =>
                (n_error_score = ninner
                 /\ Exhausted(igen, task.n_rep_inner_cv))
          /\ (pc = "error" /\ err = "estimator error") =>
                (n_error_score < ninner
                 /\ Exhausted(igen, task.n_rep_inner_cv)
                 /\ Len(scores) = nsplits - 1))
    /\ [][(pc = "cr_fit" /\ ~Exhausted(igen, task.n_rep_inner_cv)
           /\ n_error_score' > n_error_score)
          => (pc' = "cr_fit" /\ err' = "none" /\ ninner' = ninner + 1
              /\ scores' = scores)]_vars
    /\ [][(pc = "cr_fit" /\ Exhausted(igen, task.n_rep_inner_cv)
           /\ n_error_score < ninner /\ pc' # "error")
          => (pc' = "cr_split" /\ Len(scores') = nsplits)]_vars
C15_Witness ==
    /\ pc = "cr_fit"
    /\ Exhausted(igen, task.n_rep_inner_cv)
    /\ n_error_score > 0
    /\ n_error_score < ninner
    /\ nsplits > 1

\* C16: no step of the build changes the group table or the combined table,
\* and no step of a scorer call changes the predictor and target tables it
\* was given; the train and test tables of a fold are new tables holding the
\* rows at the split's positions, renumbered from the start.
C16_InputsUnchanged ==
    /\ [][g' = g /\ z' = z]_vars
    /\ [][pc # "eda_loop" => (xt' = xt /\ yt' = yt)]_vars
    /\ [](pc \in {"cr_tune", "cr_fit"} =>
            /\ Len(g) = NRows /\ Len(xt) = NRows /\ Len(yt) = NRows
            /\ g_trn = Iloc(g, i_trn) /\ g_tst = Iloc(g, i_tst)
            /\ x_trn = Iloc(xt, i_trn) /\ x_tst = Iloc(xt, i_tst)
            /\ y_trn = Iloc(yt, i_trn) /\ y_tst = Iloc(yt, i_tst)
            /\ DOMAIN g_trn = 1..Cardinality(i_trn)
            /\ DOMAIN x_tst = 1..Cardinality(i_tst))
C16_Witness ==
    /\ pc = "eda_store"
    /\ nsplits > 1
    /\ writes # <<>>
    /\ g_trn # <<>>
    /\ g_trn # g

\* C17 as stated: the task holds the same keys and values after every step
\* of the scorer as before it.
C17_TaskUnchanged == [][task' = task]_vars
\* C17: the scorer leaves every configuration key of the task with its
\* value; the only keys it writes are the two derived repeat counts
\* n_rep_outer_cv and n_rep_inner_cv, which it inserts into the task.
ConfigKeys ==
    {"N_CV_FOLDS", "N_PRED_OUTER_CV", "N_PRED_INNER_CV", "OBJECTIVE",
     "X_CON_NAMES", "X_CAT_BIN_NAMES", "X_CAT_MULT_NAMES", "Y_NAMES", "y_name"}
DerivedKeys == {"n_rep_outer_cv", "n_rep_inner_cv"}
C17_ConfigKeysUnchanged ==
    /\ [](/\ ConfigKeys \subseteq DOMAIN task
          /\ DOMAIN task \subseteq ConfigKeys \cup DerivedKeys)
    /\ [][/\ \A key \in ConfigKeys :
                key \in DOMAIN task' /\ task'[key] = task[key]
          /\ DOMAIN task \subseteq DOMAIN task'
          /\ task' # task => pc \in {"cr_setup", "cr_tune"}]_vars
C17_Witness ==
    /\ pc = "eda_store"
    /\ DerivedKeys \subseteq DOMAIN task
    /\ task.n_rep_inner_cv # task.n_rep_outer_cv

\* C18 as stated: the inner-validation folds and the outer-test predictions
\* are scored with the same metric, R2 for regression and chance-adjusted
\* balanced accuracy for binary and multiclass.
C18_SameMetric ==
    metric # NoMetric =>
        /\ SklearnScorer(scorer) = metric
        /\ objective = "regression" => metric.fn = "r2_score"
        /\ objective \in {"binary", "multiclass"} =>
              metric = [fn |-> "balanced_accuracy_score", adjusted |-> TRUE]
\* C18: the metric is fixed by the objective alone.  For regression the
\* inner-validation folds and the outer-test predictions are both scored
\* with R2.  For binary and multiclass both are scored with balanced
\* accuracy, but only the outer-test score is chance-adjusted: the search
\* scores its folds with the plain balanced accuracy.
C18_MetricByObjective ==
    /\ scorer # "none" =>
          /\ objective \in Supported
          /\ objective = "regression" =>
                SklearnScorer(scorer) = [fn |-> "r2_score", adjusted |-> FALSE]
          /\ objective \in {"binary", "multiclass"} =>
                SklearnScorer(scorer) =
                    [fn |-> "balanced_accuracy_score", adjusted |-> FALSE]
    /\ metric # NoMetric =>
          /\ scorer # "none"
          /\ metric.fn = SklearnScorer(scorer).fn
          /\ objective = "regression" =>
                metric = [fn |-> "r2_score", adjusted |-> FALSE]
          /\ objective \in {"binary", "multiclass"} =>
                metric = [fn |-> "balanced_accuracy_score", adjusted |-> TRUE]
    /\ (pc \in {"cr_split", "eda_store"} /\ scores # <<>>) =>
          metric # NoMetric
C18_Witness ==
    /\ objective = "binary"
    /\ metric = [fn |-> "balanced_accuracy_score", adjusted |-> TRUE]
    /\ SklearnScorer(scorer) =
          [fn |-> "balanced_accuracy_score", adjusted |-> FALSE]
    /\ pc = "eda_store"

\* C19: in every outer fold the inner repeat count is the least r with
\* r * (rows of the fold's outer-train partition) >= N_PRED_INNER_CV, and the
\* search draws N_CV_FOLDS * r inner splits, each a split of the outer-train
\* rows alone that keeps the outer-train groups whole.
C19_InnerRepeats ==
    /\ pc = "cr_fit" =>
          /\ task.n_rep_inner_cv =
                LeastRepeats(task.N_PRED_INNER_CV, Cardinality(i_trn))
          /\ Len(g_trn) = Cardinality(i_trn)
          /\ ninner <= task.N_CV_FOLDS * task.n_rep_inner_cv
          /\ Exhausted(igen, task.n_rep_inner_cv) <=>
                ninner = task.N_CV_FOLDS * task.n_rep_inner_cv
          /\ ninner > 0 =>
                /\ in_trn \cup in_tst = 1..Cardinality(i_trn)
                /\ in_trn \cap in_tst = {}
                /\ in_trn # {} /\ in_tst # {}
                /\ \A a \in in_trn, b \in in_tst : g_trn[a] # g_trn[b]
    /\ (pc = "cr_split" /\ nsplits > 0 /\ Len(scores) = nsplits) =>
          ninner = task.N_CV_FOLDS
                     * LeastRepeats(task.N_PRED_INNER_CV, Cardinality(i_trn))
C19_Witness ==
    /\ pc = "cr_split"
    /\ nsplits > 0
    /\ Len(scores) = nsplits
    /\ task.n_rep_inner_cv > 1
    /\ task.n_rep_inner_cv # LeastRepeats(task.N_PRED_INNER_CV, Len(g))
    /\ ninner = task.N_CV_FOLDS * task.n_rep_inner_cv

\* C20: the outer folds are processed one after another, each fold's search,
\* prediction and score being complete before the next split is drawn; a
\* call returns only when each of the N_CV_FOLDS * n_rep_outer_cv outer
\* splits has contributed exactly one score, never with fewer; every call
\* ends, by returning its score or by raising.
C20_SequentialFolds ==
    /\ [](/\ pc = "cr_split" => Len(scores) = nsplits
          /\ pc \in {"cr_tune", "cr_fit"} => Len(scores) = nsplits - 1
          /\ pc \in {"cr_split", "cr_tune", "cr_fit"} => i_cv = nsplits - 1
          /\ pc = "eda_store" =>
                /\ Len(scores) = nsplits
                /\ nsplits = task.N_CV_FOLDS
                              * LeastRepeats(task.N_PRED_OUTER_CV, Len(g))
                /\ Exhausted(gen, cv.n_repeats))
    /\ [][Len(scores') > Len(scores) =>
            (pc = "cr_fit" /\ Len(scores') = Len(scores) + 1
             /\ nsplits' = nsplits)]_vars
    /\ [][nsplits' > nsplits =>
            (pc = "cr_split" /\ nsplits' = nsplits + 1
             /\ Len(scores) = nsplits)]_vars
    /\ (pc = "cr_prepare") ~> (pc \in {"eda_store", "error"})
C20_Witness ==
    /\ pc = "eda_store"
    /\ cv.n_repeats = 2
    /\ Len(scores) = 2 * task.N_CV_FOLDS
    /\ writes # <<>>

\* C21: the cells of the matrix are written in the row-major order of the
\* off-diagonal cells, (0,1), (0,2), ..., (1,0), (1,2), ...: the k-th write
\* goes to the k-th such cell, so no cell is written twice, and a write
\* changes the cell of the pair just scored and no other cell.
RowMajorRank(cell) ==
    cell[1] * (NCols - 1) + (IF cell[2] > cell[1] THEN cell[2] ELSE cell[2] + 1)
C21_RowMajorWrites ==
    /\ [](/\ \A w \in 1..Len(writes) :
                /\ writes[w] \in Cells
                /\ writes[w][1] # writes[w][2]
                /\ RowMajorRank(writes[w]) = w
          /\ \A cell \in Cells :
                (\A w \in 1..Len(writes) : writes[w] # cell)
                    => redundancy[cell] = One
          /\ reported => Len(writes) = NCols * (NCols - 1))
    /\ [][redundancy' # redundancy =>
            /\ pc = "eda_store"
            /\ writes' = Append(writes, <<id_pred1, id_pred2>>)
            /\ redundancy'[<<id_pred1, id_pred2>>] = ret
            /\ \A cell \in Cells :
                  cell # <<id_pred1, id_pred2>>
                      => redundancy'[cell] = redundancy[cell]]_vars
    /\ [][writes' # writes =>
            (pc = "eda_store"
             /\ writes' = Append(writes, <<id_pred1, id_pred2>>))]_vars
C21_Witness ==
    /\ reported
    /\ NCols = 3
    /\ writes = <<<<0, 1>>, <<0, 2>>, <<1, 0>>, <<1, 2>>, <<2, 0>>, <<2, 1>>>>
    /\ redundancy[<<1, 0>>] # redundancy[<<0, 1>>]

\* C22: groups, predictors and targets stay aligned by row.  Once main() has
\* dropped the rows with a missing target and subsampled, the three tables
\* have min(rows with a target, MAX_SAMPLES) rows, row r of each comes from
\* the same row of the sheet, no sheet row occurs twice and no target is
\* missing; eda() receives these rows in this order; and in every outer
\* split the train (test) slices of the three tables have the size of the
\* train (test) positions and hold the rows at these positions.
RowsAligned ==
    /\ Len(main_g) = Len(main_x)
    /\ Len(main_g) = Len(main_y)
    /\ \A r \in 1..Len(main_g) :
          /\ main_g[r].orig = main_x[r].orig
          /\ main_g[r].orig = main_y[r].orig
          /\ main_g[r].orig \in 1..Len(G)
          /\ main_g[r] = [G[main_g[r].orig] EXCEPT !.label = r]
          /\ main_x[r] = [X[main_x[r].orig] EXCEPT !.label = r]
          /\ main_y[r] = [Y[main_y[r].orig] EXCEPT !.label = r]
          /\ ~main_y[r].isna
    /\ \A r1, r2 \in 1..Len(main_g) :
          r1 # r2 => main_g[r1].orig # main_g[r2].orig
SliceAt(df, idx, part) ==
    LET s == SetToSortedSeq(idx)
    IN  /\ Len(part) = Cardinality(idx)
        /\ \A r \in 1..Len(part) : part[r] = df[s[r]]
C22_RowAlignment ==
    /\ pc # "main_dropna" => RowsAligned
    /\ pc = "main_sample" =>
          Len(main_y) = Cardinality({i \in 1..Len(Y) : ~Y[i].isna})
    /\ pc \notin {"main_dropna", "main_sample"} =>
          Len(main_y) = Min(Cardinality({i \in 1..Len(Y) : ~Y[i].isna}),
                            task.MAX_SAMPLES)
    /\ pc \notin {"main_dropna", "main_sample", "main_eda"} =>
          /\ g = Vals(main_g)
          /\ z.data["c"] = Vals(main_x)
          /\ z.data["t"] = Vals(main_y)
          /\ xt # <<>> => (Len(xt) = Len(g) /\ Len(yt) = Len(g))
    /\ pc \in {"cr_tune", "cr_fit"} =>
          /\ i_trn \cup i_tst = 1..Len(g)
          /\ SliceAt(g, i_trn, g_trn) /\ SliceAt(g, i_tst, g_tst)
          /\ SliceAt(xt, i_trn, x_trn) /\ SliceAt(xt, i_tst, x_tst)
          /\ SliceAt(yt, i_trn, y_trn) /\ SliceAt(yt, i_tst, y_tst)
C22_Witness ==
    /\ pc = "cr_fit"
    /\ Len(main_g) < Len(G)
    /\ \E i \in 1..Len(Y) : Y[i].isna
    /\ \E r \in 1..(Len(main_g) - 1) : main_g[r].orig > main_g[r + 1].orig
    /\ Cardinality(i_trn) > 1
    /\ ninner > 1

\* C23: no hidden state passes from one invocation of the scorer to the
\* next.  The step that builds the outer splitter writes n_rep_outer_cv from
\* N_PRED_OUTER_CV and the rows of g and hands the splitter this value; the
\* step that builds the search of a fold writes n_rep_inner_cv from
\* N_PRED_INNER_CV and the rows of the fold's outer-train groups, so that the
\* splitters in use never run on a count left in the task by an earlier
\* invocation or fold; and a step of the scorer changes or inserts no task
\* entry other than these two.
C23_NoCrossCallState ==
    /\ [](/\ pc \in {"cr_split", "cr_tune", "cr_fit"} =>
               /\ "n_rep_outer_cv" \in DOMAIN task
               /\ cv.n_repeats = task.n_rep_outer_cv
               /\ cv.n_repeats = Ceil(task.N_PRED_OUTER_CV, Len(g))
          /\ pc = "cr_fit" =>
               /\ "n_rep_inner_cv" \in DOMAIN task
               /\ task.n_rep_inner_cv =
                     Ceil(task.N_PRED_INNER_CV, Len(g_trn)))
    /\ [][/\ pc = "cr_setup" =>
               /\ task'.n_rep_outer_cv = Ceil(task.N_PRED_OUTER_CV, Len(g))
               /\ cv'.n_repeats = task'.n_rep_outer_cv
          /\ (pc = "cr_tune" /\ pc' = "cr_fit") =>
               task'.n_rep_inner_cv = Ceil(task.N_PRED_INNER_CV, Len(g_trn))
          /\ pc \notin {"cr_setup", "cr_tune"} => task' = task
          /\ \A key \in (DOMAIN task \cup DOMAIN task') \ DerivedKeys :
                /\ key \in DOMAIN task
                /\ key \in DOMAIN task'
                /\ task'[key] = task[key]]_vars
C23_Witness ==
    /\ pc = "cr_fit"
    /\ Len(writes) > 0
    /\ nsplits = 1
    /\ ninner > 0
    /\ task.n_rep_inner_cv # task.n_rep_outer_cv

\* C24: a predicted column named in more than one role list raises no error
\* at the dispatch, and the first list that holds the name, in the order
\* continuous, binary-categorical, multi-categorical, target, alone decides
\* the objective and the target data: regression on the raw column for a
\* continuous or multi-categorical name, binary on the factorized column for
\* a binary-categorical name, whatever OBJECTIVE the task sets for targets.
RoleLists(name) ==
    {r \in {"X_CON_NAMES", "X_CAT_BIN_NAMES", "X_CAT_MULT_NAMES", "Y_NAMES"} :
        name \in Range(task[r])}
C24_FirstMatchWins ==
    /\ [](pc \in {"cr_prepare", "cr_setup", "cr_split", "cr_tune", "cr_fit",
                   "eda_store"} =>
            LET name == PredName
                col == z.data[name]
                lists == RoleLists(name)
            IN  /\ "X_CON_NAMES" \in lists =>
                      (objective = "regression" /\ yt = col)
                /\ ("X_CON_NAMES" \notin lists
                        /\ "X_CAT_BIN_NAMES" \in lists) =>
                      (objective = "binary" /\ yt = Factorize(col))
                /\ (lists \cap {"X_CON_NAMES", "X_CAT_BIN_NAMES"} = {}
                        /\ "X_CAT_MULT_NAMES" \in lists) =>
                      (objective = "regression" /\ yt = col)
                /\ lists = {"Y_NAMES"} =>
                      /\ objective = task.OBJECTIVE
                      /\ yt = IF objective = "regression"
                              THEN col ELSE Factorize(col))
    /\ [][(/\ pc = "eda_loop"
           /\ pairs # <<>>
           /\ Cardinality(RoleLists(z.columns[Head(pairs)[2] + 1])) > 1) =>
             (pc' = "cr_prepare" /\ err' = err)]_vars
C24_Witness ==
    /\ pc = "eda_store"
    /\ err = "none"
    /\ Cardinality(RoleLists(PredName)) > 1
    /\ "X_CAT_BIN_NAMES" \in RoleLists(PredName)
    /\ "X_CON_NAMES" \notin RoleLists(PredName)
    /\ task.OBJECTIVE = "regression"
    /\ objective = "binary"
    /\ yt # z.data[PredName]
    /\ Len(writes) > 2

====
